---- MODULE Spec2Model ----
(***************************************************************************)
(* Enumerative LTL learner (learn.rs): skeleton generation, formula        *)
(* generation with the equivalence filter, and the serial and parallel     *)
(* brute-force search drivers over a sample of finite traces.              *)
(*                                                                         *)
(* A formula is a tuple whose first element is its operator:               *)
(*   <<"Atom", i>>  <<"False">>  <<"Not", c>> ... <<"Until", l, r>>        *)
(* A skeleton is <<"Zeroary">>, <<"Unary", c>> or <<"Binary", l, r>>.      *)
(* A trace is a non-empty sequence of states, a state a sequence of N      *)
(* booleans; positions are 1-based here and 0-based in the program.        *)
(***************************************************************************)
EXTENDS Integers, Sequences, FiniteSets, TLC

\* ------------------------------------------------------------------ bounds
\* number of propositional variables (const N of the binaries)
N == 2

\* largest size (operator count) the drivers' size loop is followed to
MaxSize == 1

\* longest trace of the generated samples
MaxTraceLen == 2

\* worker threads of the parallel iterator
Workers == 2

\* largest size followed on the one sample of the deep search
MaxDeepSize == 3

\* largest skeleton size the generator is explored to
MaxGenSize == 2

\* longest trace of the saturating test set the filter is judged on
MaxTestLen == 4

\* longest trace of the samples the termination runs are followed on
MaxFairLen == 1

\* largest size of the children the loop bodies of gen_formulae are run on
MaxChildSize == 1

\* ----------------------------------------------------------------- helpers
Min(a, b) == IF a < b THEN a ELSE b

\* concatenation of ss[lo], ..., ss[hi]
RECURSIVE FlattenRange(_, _, _)
FlattenRange(ss, lo, hi) ==
  IF lo > hi THEN <<>>
  ELSE IF lo = hi THEN ss[lo]
  ELSE LET mid == (lo + hi) \div 2
       IN FlattenRange(ss, lo, mid) \o FlattenRange(ss, mid + 1, hi)

\* flat_map / extend: the sequences of ss one after the other
Flatten(ss) == FlattenRange(ss, 1, Len(ss))

\* itertools cartesian_product: left outer, right inner
cartesian_product(l, r) ==
  [i \in 1..(Len(l) * Len(r)) |->
      <<l[((i - 1) \div Len(r)) + 1], r[((i - 1) % Len(r)) + 1]>>]

Range(s) == {s[i] : i \in DOMAIN s}

UnaryOps == {"Not", "Next", "Globally", "Finally"}
BinaryOps == {"And", "Or", "Implies", "Until"}

Tag(f) == f[1]

\* --------------------------------------------------- syntax (crate::syntax)
\* position of an operator in the structural order: leaves, unary, binary
TagRank(t) ==
  CASE t = "Atom" -> 0 [] t = "False" -> 1
    [] t = "Not" -> 2 [] t = "Next" -> 3 [] t = "Globally" -> 4 [] t = "Finally" -> 5
    [] t = "And" -> 6 [] t = "Or" -> 7 [] t = "Implies" -> 8 [] t = "Until" -> 9

\* the structural total order `<` on syntax trees: operator, then children
RECURSIVE Less(_, _)
Less(a, b) ==
  IF Tag(a) # Tag(b) THEN TagRank(Tag(a)) < TagRank(Tag(b))
  ELSE IF Tag(a) = "Atom" THEN a[2] < b[2]
  ELSE IF Tag(a) = "False" THEN FALSE
  ELSE IF Tag(a) \in UnaryOps THEN Less(a[2], b[2])
  ELSE Less(a[2], b[2]) \/ (a[2] = b[2] /\ Less(a[3], b[3]))

\* satisfaction of f at position t of trace tr, last state stuttering
RECURSIVE eval(_, _, _)
eval(f, tr, t) ==
  CASE Tag(f) = "Atom" -> tr[t][f[2] + 1]
    [] Tag(f) = "False" -> FALSE
    [] Tag(f) = "Not" -> ~eval(f[2], tr, t)
    [] Tag(f) = "Next" -> eval(f[2], tr, Min(t + 1, Len(tr)))
    [] Tag(f) = "Globally" -> \A s \in t..Len(tr) : eval(f[2], tr, s)
    [] Tag(f) = "Finally" -> \E s \in t..Len(tr) : eval(f[2], tr, s)
    [] Tag(f) = "And" -> eval(f[2], tr, t) /\ eval(f[3], tr, t)
    [] Tag(f) = "Or" -> eval(f[2], tr, t) \/ eval(f[3], tr, t)
    [] Tag(f) = "Implies" -> eval(f[2], tr, t) => eval(f[3], tr, t)
    [] Tag(f) = "Until" ->
         \E s \in t..Len(tr) :
            eval(f[3], tr, s) /\ \A r \in t..(s - 1) : eval(f[2], tr, r)

\* Sample::is_consistent: every positive trace satisfies f, no negative does
is_consistent(sample, f) ==
  /\ \A tr \in sample.positive_traces : eval(f, tr, 1)
  /\ \A tr \in sample.negative_traces : ~eval(f, tr, 1)

\* ----------------------------------------------------- equivalence filter
\* a check_not that also rejects a Finally child
check_not_finally(child) == Tag(child) \notin {"Not", "Implies", "Finally"}

check_not(child) == Tag(child) \notin {"Not", "Implies"}

check_next(child) == Tag(child) # "Next"

check_globally(child) == Tag(child) \notin {"Globally", "Finally"}

check_finally(child) == Tag(child) # "Finally"

\* a check_and that keeps the Domination law and forgets the Commutative law
check_and_unordered(left_child, right_child) ==
  Tag(left_child) # "False" /\ Tag(right_child) # "False"

check_and(left_child, right_child) ==
  /\ Less(left_child, right_child)
  /\ LET l == left_child
         r == right_child
         tl == Tag(l)
         tr == Tag(r)
     IN IF \/ tr = "False" \/ tl = "False" \/ tl = "And"
           \/ (tl = "Not" /\ tr = "Not")
           \/ (tl = "Next" /\ tr = "Next")
           \/ (tl = "Globally" /\ tr = "Globally") THEN FALSE
        ELSE IF tl = "Implies" /\ tr = "Implies" /\ (l[2] = r[2] \/ l[3] = r[3]) THEN FALSE
        ELSE IF tl = "Until" /\ tr = "Until" /\ l[3] = r[3] THEN FALSE
        ELSE IF tl = "Or" /\ (l[2] = r \/ l[3] = r) THEN FALSE
        ELSE IF tr = "Or" /\ (r[2] = l \/ r[3] = l) THEN FALSE
        ELSE IF tl = "Or" /\ tr = "Or"
                /\ (l[2] = r[2] \/ l[2] = r[3] \/ l[3] = r[2] \/ l[3] = r[3]) THEN FALSE
        ELSE IF tr = "Next"
             THEN IF Tag(r[2]) = "Globally" THEN r[2][2] # l ELSE TRUE
        ELSE IF tl = "Next"
             THEN IF Tag(l[2]) = "Globally" THEN l[2][2] # r ELSE TRUE
        ELSE TRUE

\* the arm of check_or for  other \/ (l_1 /\ r_1)  and  (l_1 /\ r_1) \/ other
or_until_unrolling(other, l_1, r_1) ==
  IF Tag(r_1) = "Next"
  THEN IF Tag(r_1[2]) = "Until"
       THEN ~(other = r_1[2][3] /\ l_1 = r_1[2][2])
       ELSE IF Tag(l_1) = "Next"
            THEN IF Tag(l_1[2]) = "Until"
                 THEN ~(other = l_1[2][3] /\ r_1 = l_1[2][2])
                 ELSE TRUE
            ELSE TRUE
  ELSE TRUE

check_or(left_child, right_child) ==
  /\ Less(left_child, right_child)
  /\ LET l == left_child
         r == right_child
         tl == Tag(l)
         tr == Tag(r)
     IN IF \/ tr = "False" \/ tl = "False" \/ tl = "Or" \/ tl = "Not"
           \/ (tl = "Next" /\ tr = "Next")
           \/ (tl = "Finally" /\ tr = "Finally") THEN FALSE
        ELSE IF tl = "Implies" /\ tr = "Implies" /\ (l[2] = r[2] \/ l[3] = r[3]) THEN FALSE
        ELSE IF tl = "Until" /\ tr = "Until" /\ l[2] = r[2] THEN FALSE
        ELSE IF tl = "And" /\ (l[2] = r \/ l[3] = r) THEN FALSE
        ELSE IF tr = "And" /\ (r[2] = l \/ r[3] = l) THEN FALSE
        ELSE IF tl = "And" /\ tr = "And"
                /\ (l[2] = r[2] \/ l[2] = r[3] \/ l[3] = r[2] \/ l[3] = r[3]) THEN FALSE
        ELSE IF tr = "Next"
             THEN IF Tag(r[2]) = "Finally" THEN r[2][2] # l ELSE TRUE
        ELSE IF tl = "Next"
             THEN IF Tag(l[2]) = "Finally" THEN l[2][2] # r ELSE TRUE
        ELSE IF tr = "And" THEN or_until_unrolling(l, r[2], r[3])
        ELSE IF tl = "And" THEN or_until_unrolling(r, l[2], l[3])
        ELSE TRUE

\* a check_implies that also rejects equal children, a Not or an Implies on
\* the right
check_implies_right(left_child, right_child) ==
  /\ left_child # right_child
  /\ Tag(left_child) # "Not"
  /\ Tag(right_child) \notin {"Not", "Implies"}

check_implies(left_child, right_child) == Tag(left_child) # "Not"

\* a check_until that also rejects equal children
check_until_distinct(left_child, right_child) ==
  /\ left_child # right_child
  /\ ~(Tag(left_child) = "Next" /\ Tag(right_child) = "Next")
  /\ ~(Tag(right_child) = "Until" /\ left_child = right_child[2])

check_until(left_child, right_child) ==
  IF Tag(left_child) = "Next" /\ Tag(right_child) = "Next" THEN FALSE
  ELSE IF Tag(right_child) = "Until" /\ left_child = right_child[2] THEN FALSE
  ELSE TRUE

\* ------------------------------------------------------ skeleton generator
\* a gen_skeleton_trees whose binary split gives the left child at least one
\* operator (left_size from 1)
RECURSIVE skeletons_split_from_one(_)
skeletons_split_from_one(size) ==
  IF size = 0 THEN << <<"Zeroary">> >>
  ELSE LET smaller_skeletons == skeletons_split_from_one(size - 1)
           unary == [i \in DOMAIN smaller_skeletons |-> <<"Unary", smaller_skeletons[i]>>]
           binary(left_size) ==
             LET pairs == cartesian_product(skeletons_split_from_one(left_size),
                                            skeletons_split_from_one(size - 1 - left_size))
             IN [i \in DOMAIN pairs |-> <<"Binary", pairs[i][1], pairs[i][2]>>]
       IN unary \o Flatten([k \in 1..(size - 1) |-> binary(k)])

RECURSIVE gen_skeleton_trees(_)
gen_skeleton_trees(size) ==
  IF size = 0 THEN << <<"Zeroary">> >>
  ELSE LET smaller_skeletons == gen_skeleton_trees(size - 1)
           unary == [i \in DOMAIN smaller_skeletons |-> <<"Unary", smaller_skeletons[i]>>]
           binary(left_size) ==
             LET pairs == cartesian_product(gen_skeleton_trees(left_size),
                                            gen_skeleton_trees(size - 1 - left_size))
             IN [i \in DOMAIN pairs |-> <<"Binary", pairs[i][1], pairs[i][2]>>]
       IN unary \o Flatten([k \in 1..size |-> binary(k - 1)])

\* ------------------------------------------------------- formula generator
\* a Zeroary arm that yields the atomic propositions only
zeroary_atoms_only == [n \in 1..N |-> <<"Atom", n - 1>>]

\* Zeroary arm: the N atomic propositions, then the constant False
zeroary_formulae == [n \in 1..N |-> <<"Atom", n - 1>>] \o << <<"False">> >>

\* a Unary arm whose loop body pushes Not, Next, Globally, Finally in that order
unary_formulae_not_first(child) ==
  (IF check_not(child) THEN << <<"Not", child>> >> ELSE <<>>)
  \o (IF check_next(child) THEN << <<"Next", child>> >> ELSE <<>>)
  \o (IF check_globally(child) THEN << <<"Globally", child>> >> ELSE <<>>)
  \o (IF check_finally(child) THEN << <<"Finally", child>> >> ELSE <<>>)

\* body of the Unary arm's loop: Globally, Finally, Not, Next, each if it passes
unary_formulae(child) ==
  (IF check_globally(child) THEN << <<"Globally", child>> >> ELSE <<>>)
  \o (IF check_finally(child) THEN << <<"Finally", child>> >> ELSE <<>>)
  \o (IF check_not(child) THEN << <<"Not", child>> >> ELSE <<>>)
  \o (IF check_next(child) THEN << <<"Next", child>> >> ELSE <<>>)

\* body of the Binary arm's loop: And, Or, Implies, Until, each if it passes
binary_formulae(left_child, right_child) ==
  (IF check_and(left_child, right_child)
     THEN << <<"And", left_child, right_child>> >> ELSE <<>>)
  \o (IF check_or(left_child, right_child)
        THEN << <<"Or", left_child, right_child>> >> ELSE <<>>)
  \o (IF check_implies(left_child, right_child)
        THEN << <<"Implies", left_child, right_child>> >> ELSE <<>>)
  \o (IF check_until(left_child, right_child)
        THEN << <<"Until", left_child, right_child>> >> ELSE <<>>)

\* the generator without the filter: every labelling of a skeleton
RECURSIVE all_labellings(_)
all_labellings(skeleton) ==
  IF Tag(skeleton) = "Zeroary" THEN zeroary_formulae
  ELSE IF Tag(skeleton) = "Unary"
  THEN LET children == all_labellings(skeleton[2])
       IN Flatten([i \in DOMAIN children |->
                      << <<"Globally", children[i]>>, <<"Finally", children[i]>>,
                         <<"Not", children[i]>>, <<"Next", children[i]>> >>])
  ELSE LET children == cartesian_product(all_labellings(skeleton[2]),
                                         all_labellings(skeleton[3]))
       IN Flatten([i \in DOMAIN children |->
                      << <<"And", children[i][1], children[i][2]>>,
                         <<"Or", children[i][1], children[i][2]>>,
                         <<"Implies", children[i][1], children[i][2]>>,
                         <<"Until", children[i][1], children[i][2]>> >>])

\* a gen_formulae whose arms loop over every labelling of the child skeletons,
\* so that only the root of a formula has passed its check
gen_formulae_root_only(skeleton) ==
  IF Tag(skeleton) = "Zeroary" THEN zeroary_formulae
  ELSE IF Tag(skeleton) = "Unary"
  THEN LET children == all_labellings(skeleton[2])
       IN Flatten([i \in DOMAIN children |-> unary_formulae(children[i])])
  ELSE LET children == cartesian_product(all_labellings(skeleton[2]),
                                         all_labellings(skeleton[3]))
       IN Flatten([i \in DOMAIN children |->
                      binary_formulae(children[i][1], children[i][2])])

RECURSIVE gen_formulae(_)
gen_formulae(skeleton) ==
  IF Tag(skeleton) = "Zeroary" THEN zeroary_formulae
  ELSE IF Tag(skeleton) = "Unary"
  THEN LET children == gen_formulae(skeleton[2])
       IN Flatten([i \in DOMAIN children |-> unary_formulae(children[i])])
  ELSE LET children == cartesian_product(gen_formulae(skeleton[2]),
                                         gen_formulae(skeleton[3]))
       IN Flatten([i \in DOMAIN children |->
                      binary_formulae(children[i][1], children[i][2])])

\* the candidate stream of one size: skeletons flat-mapped through gen_formulae
candidates(size) ==
  LET skeletons == gen_skeleton_trees(size)
  IN Flatten([i \in DOMAIN skeletons |-> gen_formulae(skeletons[i])])

\* number of operators (internal nodes) of a formula or skeleton
RECURSIVE Ops(_)
Ops(f) ==
  IF Len(f) = 3 THEN 1 + Ops(f[2]) + Ops(f[3])
  ELSE IF Tag(f) \in UnaryOps \cup {"Unary"} THEN 1 + Ops(f[2])
  ELSE 0

\* number of leaves of a formula or skeleton
RECURSIVE Leaves(_)
Leaves(f) ==
  IF Len(f) = 3 THEN Leaves(f[2]) + Leaves(f[3])
  ELSE IF Tag(f) \in UnaryOps \cup {"Unary"} THEN Leaves(f[2])
  ELSE 1

\* the labels at the leaves of a formula
RECURSIVE LeafLabels(_)
LeafLabels(f) ==
  IF Len(f) = 3 THEN LeafLabels(f[2]) \cup LeafLabels(f[3])
  ELSE IF Tag(f) \in UnaryOps THEN LeafLabels(f[2])
  ELSE {f}

\* the skeleton a formula labels
RECURSIVE Shape(_)
Shape(f) ==
  IF Len(f) = 3 THEN <<"Binary", Shape(f[2]), Shape(f[3])>>
  ELSE IF Tag(f) \in UnaryOps THEN <<"Unary", Shape(f[2])>>
  ELSE <<"Zeroary">>

\* every subformula that is not a leaf passes the check of its operator on its
\* direct children
RECURSIVE passes_filter(_)
passes_filter(f) ==
  CASE Tag(f) = "Not" -> check_not(f[2]) /\ passes_filter(f[2])
    [] Tag(f) = "Next" -> check_next(f[2]) /\ passes_filter(f[2])
    [] Tag(f) = "Globally" -> check_globally(f[2]) /\ passes_filter(f[2])
    [] Tag(f) = "Finally" -> check_finally(f[2]) /\ passes_filter(f[2])
    [] Tag(f) = "And" ->
         check_and(f[2], f[3]) /\ passes_filter(f[2]) /\ passes_filter(f[3])
    [] Tag(f) = "Or" ->
         check_or(f[2], f[3]) /\ passes_filter(f[2]) /\ passes_filter(f[3])
    [] Tag(f) = "Implies" ->
         check_implies(f[2], f[3]) /\ passes_filter(f[2]) /\ passes_filter(f[3])
    [] Tag(f) = "Until" ->
         check_until(f[2], f[3]) /\ passes_filter(f[2]) /\ passes_filter(f[3])
    [] OTHER -> TRUE

\* every skeleton of depth at most d
RECURSIVE ShapesOfDepth(_)
ShapesOfDepth(d) ==
  IF d = 0 THEN {<<"Zeroary">>}
  ELSE LET shallower == ShapesOfDepth(d - 1)
       IN {<<"Zeroary">>}
          \cup {<<"Unary", c>> : c \in shallower}
          \cup {<<"Binary", l, r>> : l \in shallower, r \in shallower}

\* every tree shape with exactly n operator nodes
AllShapes(n) == {s \in ShapesOfDepth(n) : Ops(s) = n}

\* ------------------------------------------------------------------ samples
States == [1..N -> BOOLEAN]

Traces == UNION {[1..k -> States] : k \in 1..MaxTraceLen}

\* the traces the filter is judged on
TestTraces == UNION {[1..k -> States] : k \in 1..MaxTestLen}

T == TRUE
F == FALSE

\* named samples (N = 2): the documented scenarios 4, 5 and 6, and a sample
\* whose first hit is a conjunction
Scenario4 == [positive_traces |-> {<< <<T, F>>, <<F, T>> >>},
              negative_traces |-> {<< <<T, F>>, <<F, F>> >>}]

Scenario5 == [positive_traces |-> {<< <<T, T>> >>},
              negative_traces |-> {<< <<T, F>> >>, << <<F, T>> >>}]

Scenario6 == [positive_traces |-> {<< <<T, F>>, <<T, F>>, <<F, T>> >>},
              negative_traces |-> {<< <<T, F>>, <<F, T>>, <<F, T>> >>}]

ConjunctionSample ==
  [positive_traces |-> {<< <<T, T>>, <<F, F>>, <<T, F>> >>},
   negative_traces |-> {<< <<T, F>>, <<T, F>>, <<F, F>> >>,
                        << <<F, T>>, <<F, T>>, <<F, F>> >>}]

\* the traces differ only in p0 at the third state; both are four states long
NextNextSample ==
  [positive_traces |-> {<< <<F, F>>, <<F, F>>, <<T, F>>, <<T, F>> >>},
   negative_traces |-> {<< <<F, F>>, <<F, F>>, <<F, F>>, <<T, F>> >>}]

Scenarios == {Scenario4, Scenario5, Scenario6, ConjunctionSample}

\* one positive and one negative trace each, plus the named samples
Samples ==
  {[positive_traces |-> {p}, negative_traces |-> {q}] : p \in Traces, q \in Traces}
    \cup Scenarios

\* ------------------------------------------------------------ search driver
None == <<"None">>

\* how far the unbounded size loop is followed on a sample
SizeCap(smp) == IF smp = NextNextSample THEN MaxDeepSize ELSE MaxSize

\* first size of the size loop, (0..)
FirstSize == 0

\* a find predicate that looks at the positive traces only
positives_only(smp, formula) ==
  \A tr \in smp.positive_traces : eval(formula, tr, 1)

\* predicate of the serial find
serial_find_pred(smp, formula) == is_consistent(smp, formula)

\* predicate of the parallel find_any
par_find_pred(smp, formula) == is_consistent(smp, formula)

\* no earlier call on the sample
NoPrev == [parallel |-> FALSE, formula |-> None]

VARIABLES sample,    \* the sample (P, Q) the host holds
          parallel,  \* TRUE: par_brute_solve, FALSE: brute_solve
          log,       \* the log argument
          pc,        \* "idle", "enter" (closure entry of a size), "scan", "done"
          size,      \* current element of the size loop
          skels,     \* gen_skeleton_trees(size), the outer iterator of flat_map
          sk,        \* skeletons taken from it so far
          cands,     \* gen_formulae of the current skeleton, the inner iterator
          idx,       \* next candidate of the inner iterator (1-based)
          inflight,  \* parallel: candidates a worker took, verdict pending
          hits,      \* parallel: candidates some worker found consistent
          nchecked,  \* candidates of this size whose verdict is known
          result,    \* the returned formula, None while searching
          events,    \* sizes printed by the log line, in order
          prev,      \* previous call on this sample: its mode and its result
          gsize,     \* generator: the size whose skeletons are enumerated
          gskels,    \* generator: gen_skeleton_trees(gsize)
          gk,        \* generator: the skeleton being labelled (1-based)
          gout,      \* generator: gen_formulae of that skeleton
          gall,      \* generator: every labelling of that skeleton
          gj         \* generator: the labelling looked at (1-based)

dvars == <<sample, parallel, log, pc, size, skels, sk, cands, idx, inflight, hits,
           nchecked, result, events, prev>>

gvars == <<gsize, gskels, gk, gout, gall, gj>>

\* one pass of a loop body of gen_formulae over chosen children
VARIABLES lchild,    \* the child of the Unary arm, the left child of the Binary arm
          rchild,    \* the right child of the Binary arm
          stage,     \* "pick", "unary", "binary" or "unroll": the body that ran
          pushed     \* what that body pushed onto trees

rvars == <<lchild, rchild, stage, pushed>>

vars == <<dvars, gvars, rvars>>

DriverIdle(smp) ==
  /\ sample = smp
  /\ parallel = FALSE
  /\ log = FALSE
  /\ pc = "idle"
  /\ size = FirstSize
  /\ skels = <<>>
  /\ sk = 0
  /\ cands = <<>>
  /\ idx = 1
  /\ inflight = {}
  /\ hits = {}
  /\ nchecked = 0
  /\ result = None
  /\ events = <<>>
  /\ prev = NoPrev

GenIdle ==
  /\ gsize = 0
  /\ gskels = <<>>
  /\ gk = 1
  /\ gout = <<>>
  /\ gall = <<>>
  /\ gj = 1

RulesIdle ==
  /\ lchild = <<"False">>
  /\ rchild = <<"False">>
  /\ stage = "pick"
  /\ pushed = <<>>

Init == (\E smp \in Samples : DriverIdle(smp)) /\ GenIdle /\ RulesIdle

\* the host calls solve(sample, parallel, log), for the first time or again
Solve(par, lg) ==
  /\ pc \in {"idle", "done"}
  /\ parallel' = par
  /\ log' = lg
  /\ prev' = IF pc = "done" THEN [parallel |-> parallel, formula |-> result] ELSE prev
  /\ result' = None
  /\ size' = FirstSize
  /\ skels' = <<>>
  /\ sk' = 0
  /\ cands' = <<>>
  /\ events' = <<>>
  /\ idx' = 1
  /\ inflight' = {}
  /\ hits' = {}
  /\ nchecked' = 0
  /\ pc' = "enter"
  /\ UNCHANGED sample
  /\ UNCHANGED <<gvars, rvars>>

\* an entry of the find_map closure that prints its line whatever log is
EnterSizeAlwaysLogs ==
  /\ pc = "enter"
  /\ size <= SizeCap(sample)
  /\ events' = Append(events, size)
  /\ skels' = gen_skeleton_trees(size)
  /\ sk' = 0
  /\ cands' = <<>>
  /\ idx' = 1
  /\ inflight' = {}
  /\ hits' = {}
  /\ nchecked' = 0
  /\ pc' = "scan"
  /\ UNCHANGED <<sample, parallel, log, size, result, prev>>
  /\ UNCHANGED <<gvars, rvars>>

\* entry of the find_map closure for one size: log line, skeletons generated
EnterSize ==
  /\ pc = "enter"
  /\ size <= SizeCap(sample)
  /\ events' = IF log THEN Append(events, size) ELSE events
  /\ skels' = gen_skeleton_trees(size)
  /\ sk' = 0
  /\ cands' = <<>>
  /\ idx' = 1
  /\ inflight' = {}
  /\ hits' = {}
  /\ nchecked' = 0
  /\ pc' = "scan"
  /\ UNCHANGED <<sample, parallel, log, size, result, prev>>
  /\ UNCHANGED <<gvars, rvars>>

\* a worker may take from the stream: always in brute_solve; in
\* par_brute_solve while no hit is known and a worker is free
may_take == parallel => (hits = {} /\ Cardinality(inflight) < Workers)

\* flat_map: the inner iterator ran out, the next skeleton is labelled
NextSkeleton ==
  /\ pc = "scan"
  /\ may_take
  /\ idx > Len(cands)
  /\ sk < Len(skels)
  /\ sk' = sk + 1
  /\ cands' = gen_formulae(skels[sk + 1])
  /\ idx' = 1
  /\ UNCHANGED <<sample, parallel, log, pc, size, skels, inflight, hits, nchecked,
                 result, events, prev>>
  /\ UNCHANGED <<gvars, rvars>>

\* a flat_map that stops with the inner iterator of the current skeleton
inner_exhausted == idx > Len(cands)

\* flat_map has no further candidate of this size
stream_exhausted == idx > Len(cands) /\ sk = Len(skels)

\* brute_solve: find tests the next candidate of the stream
SerialFind ==
  /\ pc = "scan"
  /\ ~parallel
  /\ idx <= Len(cands)
  /\ nchecked' = nchecked + 1
  /\ IF serial_find_pred(sample, cands[idx])
     THEN /\ result' = cands[idx]
          /\ pc' = "done"
          /\ idx' = idx
     ELSE /\ idx' = idx + 1
          /\ UNCHANGED <<result, pc>>
  /\ UNCHANGED <<sample, parallel, log, size, skels, sk, cands, inflight, hits,
                 events, prev>>
  /\ UNCHANGED <<gvars, rvars>>

\* a size loop that gives up: find returned None and so does the driver
SerialGiveUp ==
  /\ pc = "scan"
  /\ ~parallel
  /\ stream_exhausted
  /\ result' = None
  /\ pc' = "done"
  /\ UNCHANGED <<sample, parallel, log, size, skels, sk, cands, idx, inflight, hits,
                 nchecked, events, prev>>
  /\ UNCHANGED <<gvars, rvars>>

\* brute_solve: find returned None for this size, find_map goes to the next
SerialNextSize ==
  /\ pc = "scan"
  /\ ~parallel
  /\ stream_exhausted
  /\ size' = size + 1
  /\ pc' = "enter"
  /\ UNCHANGED <<sample, parallel, log, skels, sk, cands, idx, inflight, hits,
                 nchecked, result, events, prev>>
  /\ UNCHANGED <<gvars, rvars>>

\* par_bridge: a free worker takes the next candidate unless a hit is known
ParPull ==
  /\ pc = "scan"
  /\ parallel
  /\ may_take
  /\ idx <= Len(cands)
  /\ inflight' = inflight \cup {cands[idx]}
  /\ idx' = idx + 1
  /\ UNCHANGED <<sample, parallel, log, pc, size, skels, sk, cands, hits, nchecked,
                 result, events, prev>>
  /\ UNCHANGED <<gvars, rvars>>

\* find_any: a worker finishes the consistency check of its candidate
ParEval(f) ==
  /\ pc = "scan"
  /\ parallel
  /\ f \in inflight
  /\ inflight' = inflight \ {f}
  /\ nchecked' = nchecked + 1
  /\ hits' = IF par_find_pred(sample, f) THEN hits \cup {f} ELSE hits
  /\ UNCHANGED <<sample, parallel, log, pc, size, skels, sk, cands, idx, result,
                 events, prev>>
  /\ UNCHANGED <<gvars, rvars>>

\* a find_any that does not wait for the workers still running
not_joined == TRUE

\* the parallel iterator is joined: every worker has stopped
par_joined == inflight = {}

\* find_any returns one of the hits once the iterator is joined
ParReturn(f) ==
  /\ pc = "scan"
  /\ parallel
  /\ par_joined
  /\ f \in hits
  /\ result' = f
  /\ pc' = "done"
  /\ UNCHANGED <<sample, parallel, log, size, skels, sk, cands, idx, inflight, hits,
                 nchecked, events, prev>>
  /\ UNCHANGED <<gvars, rvars>>

\* find_any returned None for this size, find_map goes to the next
ParNextSize ==
  /\ pc = "scan"
  /\ parallel
  /\ par_joined
  /\ hits = {}
  /\ stream_exhausted
  /\ size' = size + 1
  /\ pc' = "enter"
  /\ UNCHANGED <<sample, parallel, log, skels, sk, cands, idx, inflight, hits,
                 nchecked, result, events, prev>>
  /\ UNCHANGED <<gvars, rvars>>

Next ==
  \/ \E par \in BOOLEAN, lg \in BOOLEAN : Solve(par, lg)
  \/ EnterSize
  \/ NextSkeleton
  \/ SerialFind
  \/ SerialNextSize
  \/ ParPull
  \/ \E f \in inflight : ParEval(f)
  \/ \E f \in hits : ParReturn(f)
  \/ ParNextSize

Spec == Init /\ [][Next]_vars

\* brute_solve alone, on the sample whose traces differ at the third state
DeepInit == DriverIdle(NextNextSample) /\ GenIdle /\ RulesIdle

DeepNext ==
  \/ \E lg \in BOOLEAN : Solve(FALSE, lg)
  \/ EnterSize
  \/ NextSkeleton
  \/ SerialFind
  \/ SerialNextSize

SpecDeep == DeepInit /\ [][DeepNext]_vars

\* a started search keeps running: the driver's own steps are taken when they
\* can be, the host's calls are not forced
DriverStep ==
  \/ EnterSize
  \/ NextSkeleton
  \/ SerialFind
  \/ SerialNextSize
  \/ ParPull
  \/ \E f \in inflight : ParEval(f)
  \/ \E f \in hits : ParReturn(f)
  \/ ParNextSize

\* the host's first call on the sample
FirstCall == pc = "idle" /\ \E par \in BOOLEAN, lg \in BOOLEAN : Solve(par, lg)

\* one call of solve on each sample, run under the fairness above
FairNext == FirstCall \/ DriverStep

\* one positive and one negative trace, equal ones included
FairSamples ==
  LET short == UNION {[1..k -> States] : k \in 1..MaxFairLen}
  IN {[positive_traces |-> {p}, negative_traces |-> {q}] : p \in short, q \in short}

FairInit == (\E smp \in FairSamples : DriverIdle(smp)) /\ GenIdle /\ RulesIdle

FairSpec == FairInit /\ [][FairNext]_vars /\ WF_vars(DriverStep)

\* ------------------------------------------- the generator, size by size
\* gen_skeleton_trees is applied to a size, its first skeleton is labelled
GenEnter(n) ==
  /\ gsize' = n
  /\ gskels' = gen_skeleton_trees(n)
  /\ gk' = 1
  /\ gout' = gen_formulae(gskels'[1])
  /\ gall' = all_labellings(gskels'[1])
  /\ gj' = 1

GenInit ==
  /\ DriverIdle(Scenario4)
  /\ RulesIdle
  /\ gsize = 0
  /\ gskels = gen_skeleton_trees(0)
  /\ gk = 1
  /\ gout = gen_formulae(gskels[1])
  /\ gall = all_labellings(gskels[1])
  /\ gj = 1

\* the next labelling of the current skeleton
GenNextFormula ==
  /\ gj < Len(gall)
  /\ gj' = gj + 1
  /\ UNCHANGED <<gsize, gskels, gk, gout, gall>>
  /\ UNCHANGED <<dvars, rvars>>

\* gen_formulae is applied to the next skeleton of the size
GenNextSkeleton ==
  /\ gj = Len(gall)
  /\ gk < Len(gskels)
  /\ gk' = gk + 1
  /\ gout' = gen_formulae(gskels[gk + 1])
  /\ gall' = all_labellings(gskels[gk + 1])
  /\ gj' = 1
  /\ UNCHANGED <<gsize, gskels>>
  /\ UNCHANGED <<dvars, rvars>>

\* gen_skeleton_trees is applied to the next size
GenNextSize ==
  /\ gj = Len(gall)
  /\ gk = Len(gskels)
  /\ gsize < MaxGenSize
  /\ GenEnter(gsize + 1)
  /\ UNCHANGED <<dvars, rvars>>

GenNext == GenNextFormula \/ GenNextSkeleton \/ GenNextSize

SpecGen == GenInit /\ [][GenNext]_vars

\* -------------------------------------------- the loop bodies of gen_formulae
\* the children the arms loop over: what gen_formulae returned for the
\* skeletons of the child sizes
Children == UNION {Range(candidates(n)) : n \in 0..MaxChildSize}

RulesInit ==
  /\ DriverIdle(Scenario4)
  /\ GenIdle
  /\ lchild \in Children
  /\ rchild \in Children
  /\ stage = "pick"
  /\ pushed = <<>>

\* Unary arm: one pass of the loop body on lchild
UnaryBody ==
  /\ stage = "pick"
  /\ pushed' = unary_formulae(lchild)
  /\ stage' = "unary"
  /\ UNCHANGED <<lchild, rchild>>
  /\ UNCHANGED <<dvars, gvars>>

\* Binary arm: one pass of the loop body on the pair (lchild, rchild)
BinaryBody ==
  /\ stage = "pick"
  /\ pushed' = binary_formulae(lchild, rchild)
  /\ stage' = "binary"
  /\ UNCHANGED <<lchild, rchild>>
  /\ UNCHANGED <<dvars, gvars>>

\* what the Binary arm pushes for the pair (psi, phi /\ X(phi U psi)) once the
\* arms below it have emitted phi U psi, X(phi U psi) and phi /\ X(phi U psi);
\* nothing when one of these is not emitted
unrolling_pass(phi, psi) ==
  LET until == <<"Until", phi, psi>>
      next == <<"Next", until>>
      and == <<"And", phi, next>>
  IN IF /\ until \in Range(binary_formulae(phi, psi))
        /\ next \in Range(unary_formulae(until))
        /\ and \in Range(binary_formulae(phi, and[3]))
     THEN binary_formulae(psi, and)
     ELSE <<>>

\* the passes of the loop bodies that build the unrolling of lchild U rchild
UnrollBody ==
  /\ stage = "pick"
  /\ pushed' = unrolling_pass(lchild, rchild)
  /\ stage' = "unroll"
  /\ UNCHANGED <<lchild, rchild>>
  /\ UNCHANGED <<dvars, gvars>>

RulesNext == UnaryBody \/ BinaryBody \/ UnrollBody

SpecRules == RulesInit /\ [][RulesNext]_vars

\* =================================================================== claims
Positive == sample.positive_traces
Negative == sample.negative_traces

\* every labelling, filtered or not, of the skeletons of one size
labellings(n) ==
  LET skeletons == gen_skeleton_trees(n)
  IN Flatten([i \in DOMAIN skeletons |-> all_labellings(skeletons[i])])

\* some candidate of a size the search is followed to is consistent
HasHit ==
  \E n \in 0..SizeCap(sample) : \E c \in Range(candidates(n)) : is_consistent(sample, c)

\* C1: whenever a driver, serial or parallel, returns a formula, every positive
\* trace satisfies it at position 0 and no negative trace does.
C1_ReturnedConsistent ==
  pc = "done" =>
    /\ result # None
    /\ \A tr \in Positive : eval(result, tr, 1)
    /\ \A tr \in Negative : ~eval(result, tr, 1)

C1_Witness == pc = "done" /\ parallel /\ Ops(result) = 1

\* C2: when solve returns a formula, no LTL formula with fewer operators is
\* consistent with the sample (every labelling of every smaller skeleton is
\* looked at, whether the filter keeps it or not).
C2_Minimal ==
  pc = "done" =>
    \A n \in 0..(Ops(result) - 1) :
      \A g \in Range(labellings(n)) : ~is_consistent(sample, g)

\* C4: a serial and a parallel call on the same sample that both return, return
\* formulae of the same size, whichever hit the parallel call picks.
C4_SameSize ==
  (pc = "done" /\ prev.formula # None /\ prev.parallel # parallel) =>
    Ops(result) = Ops(prev.formula)

C4_Witness ==
  /\ pc = "done"
  /\ parallel
  /\ ~prev.parallel
  /\ prev.formula # None
  /\ result # prev.formula

\* C5: a call never returns without a formula; on a sample with a trace that is
\* both positive and negative it never returns and passes every size the model
\* follows; on a sample with a consistent candidate it eventually returns.
C5_NoReturnWithoutHit ==
  /\ [](pc = "done" => result # None)
  /\ []((Positive \cap Negative # {}) => pc # "done")
  /\ ((pc = "enter" /\ size = FirstSize /\ ~HasHit)
        ~> (pc = "enter" /\ size = SizeCap(sample) + 1))
  /\ ((pc = "enter" /\ size = FirstSize /\ HasHit) ~> (pc = "done"))

C5_Witness ==
  /\ Positive \cap Negative # {}
  /\ pc = "enter"
  /\ size = MaxSize + 1

\* C6: within a call the size only ever goes up by one, and only when every
\* candidate of the current size has been checked and found inconsistent;
\* every skeleton and candidate built has the current size.
\* (C6_Step is the step condition, C6_SizeOrder the property.)
C6_Step ==
  pc \in {"enter", "scan"} =>
    /\ size' # size =>
         /\ size' = size + 1
         /\ pc = "scan"
         /\ nchecked = Len(candidates(size))
         /\ \A c \in Range(candidates(size)) : ~is_consistent(sample, c)
    /\ pc' = "scan" =>
         /\ \A i \in DOMAIN skels' : Ops(skels'[i]) = size'
         /\ cands' # cands => \A i \in DOMAIN cands' : Ops(cands'[i]) = size'

C6_SizeOrder == [][C6_Step]_vars

C6_Witness == parallel /\ pc = "scan" /\ size = 1 /\ nchecked > 0

\* C7 (as amended): gen_skeleton_trees(n), n >= 0, holds every tree shape with
\* exactly n operator nodes exactly once: n = 0 gives the single Zeroary leaf,
\* n > 0 gives Unary(c) for c of size n - 1 and Binary(l, r) for l of size k and
\* r of size n - 1 - k, 0 <= k <= n - 1.
C7_SkeletonShapes ==
  /\ Range(gskels) = AllShapes(gsize)
  /\ Cardinality(Range(gskels)) = Len(gskels)
  /\ gsize = 0 => gskels = << <<"Zeroary">> >>
  /\ gsize > 0 =>
       Range(gskels) =
         {<<"Unary", c>> : c \in Range(gen_skeleton_trees(gsize - 1))}
         \cup UNION {{<<"Binary", l, r>> :
                        l \in Range(gen_skeleton_trees(k)),
                        r \in Range(gen_skeleton_trees(gsize - 1 - k))} :
                     k \in 0..(gsize - 1)}

\* C7 as stated: for n >= 1 every skeleton of gen_skeleton_trees(n) has exactly
\* n leaves, and n = 1 gives the single leaf only.
C7_Original ==
  gsize >= 1 =>
    /\ \A i \in DOMAIN gskels : Leaves(gskels[i]) = gsize
    /\ gsize = 1 => gskels = << <<"Zeroary">> >>

C7_Witness == gsize = 2 /\ Len(gskels) = 6 /\ gk = Len(gskels)

\* C8 (as amended): gen_formulae on the Zeroary skeleton returns the N atoms
\* Atom(0) .. Atom(N-1) followed by False, and every leaf of every formula the
\* generator emits is one of these.
C8_LeafLabels ==
  /\ gskels[gk] = <<"Zeroary">> =>
       /\ Len(gout) = N + 1
       /\ \A n \in 1..N : gout[n] = <<"Atom", n - 1>>
       /\ gout[N + 1] = <<"False">>
  /\ \A i \in DOMAIN gout :
       LeafLabels(gout[i]) \subseteq {<<"Atom", n>> : n \in 0..(N - 1)} \cup {<<"False">>}

\* C8 as stated: the Zeroary skeleton gives exactly the N atoms, and every leaf
\* of every emitted formula is an atom.
C8_Original ==
  /\ gskels[gk] = <<"Zeroary">> => Range(gout) = {<<"Atom", n>> : n \in 0..(N - 1)}
  /\ \A i \in DOMAIN gout :
       LeafLabels(gout[i]) \subseteq {<<"Atom", n>> : n \in 0..(N - 1)}

C8_Witness ==
  /\ gsize = 1
  /\ \E i \in DOMAIN gout : <<"False">> \in LeafLabels(gout[i])
  /\ \E i \in DOMAIN gout : <<"Atom", N - 1>> \in LeafLabels(gout[i])

\* C3: every labelling the filter drops has a retained formula of its size or
\* smaller that agrees with it at position 0 on every test trace.
C3_FilterSound ==
  LET u == gall[gj]
  IN u \notin Range(gout) =>
       \E n \in 0..gsize : \E r \in Range(candidates(n)) :
         \A tr \in TestTraces : eval(r, tr, 1) = eval(u, tr, 1)

\* C9 (as amended): on scenario 4 the serial driver returns Finally(Atom(1)),
\* the first consistent candidate of the smallest size that has one.
C9_Scenario4 ==
  (sample = Scenario4 /\ ~parallel /\ pc = "done") =>
    result = <<"Finally", <<"Atom", 1>>>>

\* C9 as stated: on scenario 4 the serial driver returns Next(Atom(1)).
C9_Original ==
  (sample = Scenario4 /\ ~parallel /\ pc = "done") =>
    result = <<"Next", <<"Atom", 1>>>>

C9_Witness == sample = Scenario4 /\ ~parallel /\ pc = "done" /\ size = 1

\* C10 (as amended): on scenario 6 the serial driver returns Next(Atom(0));
\* Until(Atom(0), Atom(1)) holds on the negative trace and is not consistent.
C10_Scenario6 ==
  (sample = Scenario6 /\ ~parallel /\ pc = "done") =>
    /\ result = <<"Next", <<"Atom", 0>>>>
    /\ \E tr \in Negative : eval(<<"Until", <<"Atom", 0>>, <<"Atom", 1>>>>, tr, 1)

\* C10 as stated: on scenario 6 the serial driver returns Until(Atom(0),
\* Atom(1)), which is consistent with the sample.
C10_Original ==
  (sample = Scenario6 /\ ~parallel /\ pc = "done") =>
    /\ result = <<"Until", <<"Atom", 0>>, <<"Atom", 1>>>>
    /\ is_consistent(sample, result)

C10_Witness == sample = Scenario6 /\ ~parallel /\ pc = "done" /\ size = 1

\* C11 (as amended): with log set a call prints one line per size it has
\* entered, in increasing order from size 0, the line of a size before any
\* candidate of that size is checked; with log unset it prints nothing.
C11_LogEvents ==
  /\ ~log => events = <<>>
  /\ log =>
       /\ Len(events) = (IF pc = "enter" THEN size - FirstSize ELSE size - FirstSize + 1)
       /\ \A i \in DOMAIN events : events[i] = FirstSize + i - 1
       /\ events # <<>> => events[1] = 0

\* C11 as stated: the first line printed is the line of size 1.
C11_Original ==
  /\ ~log => events = <<>>
  /\ (log /\ events # <<>>) => events[1] = 1

C11_Witness == log /\ parallel /\ pc = "scan" /\ size = 1 /\ nchecked > 0 /\ Len(events) = 2

\* C12: an And or Or the Binary arm pushes has its left child strictly below
\* its right child in the order on syntax trees, which orders any two distinct
\* children one way only; so the swapped pair's And (Or) is not pushed, and
\* no And or Or of a child with itself is.
C12_Commutativity ==
  stage = "binary" =>
    /\ (Less(lchild, rchild) /\ ~Less(rchild, lchild) /\ lchild # rchild)
         \/ (~Less(lchild, rchild) /\ Less(rchild, lchild) /\ lchild # rchild)
         \/ (~Less(lchild, rchild) /\ ~Less(rchild, lchild) /\ lchild = rchild)
    /\ \A op \in {"And", "Or"} :
         <<op, lchild, rchild>> \in Range(pushed) =>
           /\ Less(lchild, rchild)
           /\ lchild # rchild
           /\ <<op, rchild, lchild>> \notin Range(binary_formulae(rchild, lchild))

C12_Witness ==
  /\ stage = "binary"
  /\ Ops(lchild) = 1
  /\ <<"And", lchild, rchild>> \in Range(pushed)
  /\ <<"Or", lchild, rchild>> \in Range(pushed)

\* C13: the Unary arm pushes Next(child) exactly when the child's operator is
\* none of Not, Globally, Finally; so it pushes Next(Next(_)).
C13_NextRule ==
  stage = "unary" =>
    (<<"Next", lchild>> \in Range(pushed)
       <=> Tag(lchild) \notin {"Not", "Globally", "Finally"})

\* C14: whatever the children phi (lchild) and psi (rchild) are, the Binary arm
\* does not push  psi \/ (phi /\ X(phi U psi)),  the unrolling of phi U psi.
C14_NoUntilUnrolling ==
  stage = "unroll" =>
    <<"Or", rchild, <<"And", lchild, <<"Next", <<"Until", lchild, rchild>>>>>>>>
      \notin Range(pushed)

\* C15 (as amended): the Binary arm pushes Implies(phi, psi) exactly when the
\* operator of phi is not Not.
C15_ImpliesRule ==
  stage = "binary" =>
    (<<"Implies", lchild, rchild>> \in Range(pushed) <=> Tag(lchild) # "Not")

\* C15 as stated: Implies(phi, psi) is pushed exactly when phi # psi, phi is no
\* Not, psi is no Not and psi is no Implies.
C15_Original ==
  stage = "binary" =>
    (<<"Implies", lchild, rchild>> \in Range(pushed)
       <=> /\ lchild # rchild
           /\ Tag(lchild) # "Not"
           /\ Tag(rchild) # "Not"
           /\ Tag(rchild) # "Implies")

C15_Witness ==
  /\ stage = "binary"
  /\ Tag(rchild) = "Implies"
  /\ <<"Implies", lchild, rchild>> \in Range(pushed)

\* C16 (as amended): the Binary arm pushes Until(phi, psi) exactly when phi and
\* psi are not both a Next and psi is not an Until whose left child is phi.
C16_UntilRule ==
  stage = "binary" =>
    (<<"Until", lchild, rchild>> \in Range(pushed)
       <=> /\ ~(Tag(lchild) = "Next" /\ Tag(rchild) = "Next")
           /\ ~(Tag(rchild) = "Until" /\ rchild[2] = lchild))

\* C16 as stated: Until(phi, psi) is pushed exactly when, besides, phi # psi.
C16_Original ==
  stage = "binary" =>
    (<<"Until", lchild, rchild>> \in Range(pushed)
       <=> /\ lchild # rchild
           /\ ~(Tag(lchild) = "Next" /\ Tag(rchild) = "Next")
           /\ ~(Tag(rchild) = "Until" /\ rchild[2] = lchild))

C16_Witness ==
  /\ stage = "binary"
  /\ lchild = rchild
  /\ Ops(lchild) = 1
  /\ <<"Until", lchild, rchild>> \in Range(pushed)

C18_FilterClosure ==
  \A i \in DOMAIN gout :
    /\ Shape(gout[i]) = gskels[gk]
    /\ passes_filter(gout[i])

C18_Witness ==
  /\ gsize = 2
  /\ gskels[gk] = <<"Unary", <<"Binary", <<"Zeroary">>, <<"Zeroary">>>>>>
  /\ gout # <<>>
  /\ Len(gout) < Len(gall)

====
